---- MODULE Spec2Model ----
(***************************************************************************)
(* Model of rune (src/src/main.rs): the orchestrator `main` and the boot   *)
(* partition scan `locate_boot_partition`.                                 *)
(*                                                                         *)
(* A disk image is abstracted to what the scan can observe of it: whether  *)
(* its partition table can be read, the table's entries in on-disk order,  *)
(* and, for every byte window (offset, length), what the FAT inspector     *)
(* finds there (open fails / label unreadable / a label).                  *)
(*                                                                         *)
(* Sequences are 1-based here: the source's partitions[0] is partitions[1] *)
(* and the k-th loop iteration looks at partitions[k].                     *)
(* usize products (p_lba * 512) stay below 2^41 for u32 operands, so on a  *)
(* 64-bit build they never wrap; the model's values are far below that.    *)
(***************************************************************************)
EXTENDS Integers, Sequences, FiniteSets, TLC

\* ---------------------------------------------------------------- bounds
MaxLen == 4
MaxRuns == 2

\* ------------------------------------------------------- program constants
sector_size == 512
FatType == 12

\* ------------------------------------------------------------ input domain
\* 12 = FAT32 (LBA), the only code the scan accepts; 11 = FAT32 (CHS), a
\* FAT-family code the scan does not accept.
Types == {11, 12}
\* (start sector, sector count) of the extents an entry may describe.
Extents == {<<2048, 131072>>, <<133120, 65536>>}
Entries == {[p_type |-> t, p_lba |-> e[1], p_size |-> e[2]] : t \in Types, e \in Extents}
NoEntry == [p_type |-> 0, p_lba |-> 0, p_size |-> 0]

RECURSIVE SeqsUpTo(_, _)
SeqsUpTo(S, n) ==
    IF n = 0 THEN {<<>>}
    ELSE LET shorter == SeqsUpTo(S, n - 1)
         IN  shorter \cup {Append(s, x) : s \in {t \in shorter : Len(t) = n - 1}, x \in S}
Tables == SeqsUpTo(Entries, MaxLen)

\* Volume labels as sequences of characters.
Labels ==
    { <<"H","A","I","K","U"," ">>,
      <<"h","A","i","K","u">>,
      <<"H","A","I","K","U"," ","B","O","O","T">>,
      <<"B","O","O","T">>,
      <<"h","a","i","k">> }
NoLabel == <<>>
\* What the FAT inspector finds in a byte window.
Volumes ==
    { [opens |-> FALSE, labelOk |-> FALSE, label |-> NoLabel],
      [opens |-> TRUE,  labelOk |-> FALSE, label |-> NoLabel] }
    \cup { [opens |-> TRUE, labelOk |-> TRUE, label |-> l] : l \in Labels }
Windows == { <<e[1] * sector_size, e[2] * sector_size>> : e \in Extents }
\* An image whose table cannot be read shows no entries.
Disks ==
    { d \in [readable : BOOLEAN, table : Tables, fs : [Windows -> Volumes]] :
        d.readable \/ d.table = <<>> }
\* A destination that has not been written yet: no partition table.
BlankDisk ==
    [readable |-> FALSE, table |-> <<>>,
     fs |-> [w \in Windows |-> [opens |-> FALSE, labelOk |-> FALSE, label |-> NoLabel]]]
NoSource == BlankDisk

NoResult == [kind |-> "none", entry |-> NoEntry, err |-> ""]
Ok(p) == [kind |-> "ok", entry |-> p, err |-> ""]
Err(msg) == [kind |-> "err", entry |-> NoEntry, err |-> msg]

\* ------------------------------------------------------------------- state
VARIABLES
    pc,          \* position of main: "args","write","scan","locating","provision","exit","harness"
    hasImage,    \* matches.opt_str("i") is Some
    source,      \* content of the source image (NoSource when none given)
    disk,        \* content of output_file
    exitCode,    \* process exit status, -1 while running
    trace,       \* steps main has started, in order
    boot_partition, \* main's binding of the locate result
    lpc,         \* position of locate_boot_partition: "idle","read","loop","done"
    partitions,  \* the Vec returned by read_partitions
    i,           \* index of the entry the for loop looks at next
    result,      \* value returned by locate_boot_partition
    opened,      \* byte windows handed to fat::Image::from_file_offset, in order
    examined,    \* table indices the loop body has run for, in order
    runs,        \* invocations of locate_boot_partition so far
    prev         \* outcome of the previous invocation (NoResult if none)

mainVars == <<pc, hasImage, source, exitCode, trace, boot_partition>>
locVars == <<lpc, partitions, i, result, opened, examined>>
vars == <<pc, hasImage, source, disk, exitCode, trace, boot_partition,
          lpc, partitions, i, result, opened, examined, runs, prev>>

\* ------------------------------------------------------ string operations
Lower == <<"a","b","h","i","k","o","t","u">>
Upper == <<"A","B","H","I","K","O","T","U">>
to_uppercase_char(c) ==
    IF \E j \in 1..Len(Lower) : Lower[j] = c
    THEN Upper[CHOOSE j \in 1..Len(Lower) : Lower[j] = c]
    ELSE c
to_uppercase(s) == [j \in 1..Len(s) |-> to_uppercase_char(s[j])]
contains(s, pat) ==
    \E off \in 0..(Len(s) - Len(pat)) : SubSeq(s, off + 1, off + Len(pat)) = pat
HAIKU == <<"H","A","I","K","U">>

\* ------------------------------------------------- locate_boot_partition
\* A variant of line 48 that takes every FAT32 code for a boot filesystem.
IsFatMut(p) == p.p_type \in {11, FatType}
\* Line 48: the type test of the loop body.
IsFat(p) == p.p_type = FatType

\* A variant of line 53 that takes the window from the loop's current entry.
WindowMut(parts, k) == <<parts[k].p_lba * sector_size, parts[k].p_size * sector_size>>
\* Line 53: the byte window handed to the inspector in iteration k.
Window(parts, k) == <<parts[1].p_lba * sector_size, parts[1].p_size * sector_size>>

\* Line 58: the identity test on the label.
LabelMatches(label) == contains(to_uppercase(label), HAIKU)

\* Lines 52-54: what the inspector reports for a window of disk d.
from_file_offset(d, w) == d.fs[w]

\* A variant of the loop that does not advance.
NextIndexMut(k) == k
\* Line 46: the for loop's advance to the next entry.
NextIndex(k) == k + 1

\* Outcome of the loop body for entry k (lines 47-62).
IterOutcome(d, parts, k) ==
    IF ~IsFat(parts[k]) THEN "skip"
    ELSE LET image == from_file_offset(d, Window(parts, k))
         IN  IF ~image.opens THEN "openerr"
             ELSE IF ~image.labelOk THEN "labelerr"
             ELSE IF ~LabelMatches(image.label) THEN "mismatch"
             ELSE "match"

\* The loop of lines 46-64 as a function of the image and the table.
RECURSIVE ScanFrom(_, _, _)
ScanFrom(d, parts, k) ==
    IF k > Len(parts) THEN Err("no Haiku boot partitions")
    ELSE LET o == IterOutcome(d, parts, k)
         IN  IF o = "match" THEN Ok(parts[k])
             ELSE IF o = "openerr" THEN Err("open")
             ELSE ScanFrom(d, parts, k + 1)

\* locate_boot_partition as a function of the image (lines 44-65).
LocateFn(d) == IF ~d.readable THEN Err("table") ELSE ScanFrom(d, d.table, 1)

InLoop == lpc = "loop" /\ i <= Len(partitions)

\* Line 45, success: the table is read and the loop starts at its first entry.
ReadPartitionsOk ==
    /\ lpc = "read"
    /\ disk.readable
    /\ partitions' = disk.table
    /\ i' = 1
    /\ lpc' = "loop"
    /\ UNCHANGED <<result, opened, examined, disk, runs, prev, mainVars>>

\* Line 45, failure: `?` returns the reader's error.
ReadPartitionsErr ==
    /\ lpc = "read"
    /\ ~disk.readable
    /\ result' = Err("table")
    /\ lpc' = "done"
    /\ UNCHANGED <<partitions, i, opened, examined, disk, runs, prev, mainVars>>

\* Lines 48-51: a non-FAT entry is ignored.
SkipNonFat ==
    /\ InLoop
    /\ IterOutcome(disk, partitions, i) = "skip"
    /\ examined' = Append(examined, i)
    /\ i' = NextIndex(i)
    /\ UNCHANGED <<lpc, partitions, result, opened, disk, runs, prev, mainVars>>

\* Lines 52-53: the volume cannot be opened; `?` returns the error.
OpenErr ==
    /\ InLoop
    /\ IterOutcome(disk, partitions, i) = "openerr"
    /\ examined' = Append(examined, i)
    /\ opened' = Append(opened, Window(partitions, i))
    /\ result' = Err("open")
    /\ lpc' = "done"
    /\ UNCHANGED <<partitions, i, disk, runs, prev, mainVars>>

\* Lines 54-57: the label cannot be read; continue.
LabelErr ==
    /\ InLoop
    /\ IterOutcome(disk, partitions, i) = "labelerr"
    /\ examined' = Append(examined, i)
    /\ opened' = Append(opened, Window(partitions, i))
    /\ i' = NextIndex(i)
    /\ UNCHANGED <<lpc, partitions, result, disk, runs, prev, mainVars>>

\* Lines 58-60: the label lacks the marker; continue.
LabelMismatch ==
    /\ InLoop
    /\ IterOutcome(disk, partitions, i) = "mismatch"
    /\ examined' = Append(examined, i)
    /\ opened' = Append(opened, Window(partitions, i))
    /\ i' = NextIndex(i)
    /\ UNCHANGED <<lpc, partitions, result, disk, runs, prev, mainVars>>

\* A variant of line 62 that also rewrites the inspected volume's label.
MatchMut ==
    /\ InLoop
    /\ IterOutcome(disk, partitions, i) = "match"
    /\ examined' = Append(examined, i)
    /\ opened' = Append(opened, Window(partitions, i))
    /\ result' = Ok(partitions[i])
    /\ lpc' = "done"
    /\ disk' = [disk EXCEPT !.fs[Window(partitions, i)].label = <<"B","O","O","T">>]
    /\ UNCHANGED <<partitions, i, runs, prev, mainVars>>

\* Line 62: the current entry is returned.
Match ==
    /\ InLoop
    /\ IterOutcome(disk, partitions, i) = "match"
    /\ examined' = Append(examined, i)
    /\ opened' = Append(opened, Window(partitions, i))
    /\ result' = Ok(partitions[i])
    /\ lpc' = "done"
    /\ UNCHANGED <<partitions, i, disk, runs, prev, mainVars>>

\* Line 64: the loop ran out of entries.
NotFound ==
    /\ lpc = "loop"
    /\ i > Len(partitions)
    /\ result' = Err("no Haiku boot partitions")
    /\ lpc' = "done"
    /\ UNCHANGED <<partitions, i, opened, examined, disk, runs, prev, mainVars>>

locate_boot_partition ==
    \/ ReadPartitionsOk
    \/ ReadPartitionsErr
    \/ SkipNonFat
    \/ OpenErr
    \/ LabelErr
    \/ LabelMismatch
    \/ Match
    \/ NotFound

\* ------------------------------------------------------------ collaborators
\* image_tools::write(source, output): byte-for-byte copy of the source image.
image_tools_write(src, dst) == src

\* -------------------------------------------------------------------- main
ArgCases == {"parse_error", "help", "list", "no_output", "no_board",
             "unknown_board", "board_error"}

\* Lines 77-120: option parsing and board lookup end the run.
ArgsRejected ==
    /\ pc = "args"
    /\ \E c \in ArgCases : exitCode' = IF c = "help" THEN 0 ELSE 1
    /\ pc' = "exit"
    /\ UNCHANGED <<hasImage, source, disk, trace, boot_partition, runs, prev, locVars>>

\* Lines 77-122: options and board are valid.
ArgsAccepted ==
    /\ pc = "args"
    /\ pc' = "write"
    /\ UNCHANGED <<hasImage, source, disk, exitCode, trace, boot_partition, runs, prev, locVars>>

\* Lines 126-139: the source image is written to output_file.
WriteOk ==
    /\ pc = "write"
    /\ hasImage
    /\ disk' = image_tools_write(source, disk)
    /\ trace' = Append(trace, "write")
    /\ pc' = "scan"
    /\ UNCHANGED <<hasImage, source, exitCode, boot_partition, runs, prev, locVars>>

\* Lines 130-135: the write fails; print and exit(1).
WriteErr ==
    /\ pc = "write"
    /\ hasImage
    /\ trace' = trace \o <<"write", "write_failed">>
    /\ exitCode' = 1
    /\ pc' = "exit"
    /\ UNCHANGED <<hasImage, source, disk, boot_partition, runs, prev, locVars>>

\* Lines 141-143: no source image was given.
NoSourceImage ==
    /\ pc = "write"
    /\ ~hasImage
    /\ pc' = "scan"
    /\ UNCHANGED <<hasImage, source, disk, exitCode, trace, boot_partition, runs, prev, locVars>>

\* Line 150: locate_boot_partition(output_file.clone()) is called.
CallLocate ==
    /\ pc = "scan"
    /\ lpc = "idle"
    /\ lpc' = "read"
    /\ runs' = runs + 1
    /\ trace' = Append(trace, "locate")
    /\ pc' = "locating"
    /\ UNCHANGED <<hasImage, source, disk, exitCode, boot_partition, prev,
                   partitions, i, result, opened, examined>>

\* A variant of lines 150-156 that goes on to provisioning after a failed locate.
LocateErrMut ==
    /\ pc = "locating"
    /\ lpc = "done"
    /\ result.kind = "err"
    /\ trace' = Append(trace, "locate_failed")
    /\ pc' = "provision"
    /\ UNCHANGED <<hasImage, source, disk, exitCode, boot_partition, runs, prev, locVars>>

\* Lines 150-151: the locate result is bound to boot_partition.
LocateOk ==
    /\ pc = "locating"
    /\ lpc = "done"
    /\ result.kind = "ok"
    /\ boot_partition' = result.entry
    /\ pc' = "provision"
    /\ UNCHANGED <<hasImage, source, disk, exitCode, trace, runs, prev, locVars>>

\* Lines 152-155: the locate error is printed; exit(1).
LocateErr ==
    /\ pc = "locating"
    /\ lpc = "done"
    /\ result.kind = "err"
    /\ trace' = Append(trace, "locate_failed")
    /\ exitCode' = 1
    /\ pc' = "exit"
    /\ UNCHANGED <<hasImage, source, disk, boot_partition, runs, prev, locVars>>

\* Lines 162-169: boards::get_files succeeds; main returns.  The copied boot
\* files do not touch the partition table or the volume labels.
GetFilesOk ==
    /\ pc = "provision"
    /\ trace' = Append(trace, "provision")
    /\ exitCode' = 0
    /\ pc' = "exit"
    /\ UNCHANGED <<hasImage, source, disk, boot_partition, runs, prev, locVars>>

\* Lines 164-167: boards::get_files fails; print and exit(1).
GetFilesErr ==
    /\ pc = "provision"
    /\ trace' = trace \o <<"provision", "provision_failed">>
    /\ exitCode' = 1
    /\ pc' = "exit"
    /\ UNCHANGED <<hasImage, source, disk, boot_partition, runs, prev, locVars>>

main ==
    \/ ArgsRejected
    \/ ArgsAccepted
    \/ WriteOk
    \/ WriteErr
    \/ NoSourceImage
    \/ CallLocate
    \/ LocateOk
    \/ LocateErr
    \/ GetFilesOk
    \/ GetFilesErr

\* ------------------------------------------------------------ whole program
Init ==
    /\ pc = "args"
    /\ hasImage \in BOOLEAN
    /\ source \in (IF hasImage THEN Disks ELSE {NoSource})
    /\ disk \in (IF hasImage THEN {BlankDisk} ELSE Disks)
    /\ exitCode = -1
    /\ trace = <<>>
    /\ boot_partition = NoEntry
    /\ lpc = "idle"
    /\ partitions = <<>>
    /\ i = 1
    /\ result = NoResult
    /\ opened = <<>>
    /\ examined = <<>>
    /\ runs = 0
    /\ prev = NoResult

Next == main \/ locate_boot_partition

Spec == Init /\ [][Next]_vars

\* The program is one sequential thread: a step that can be taken is taken.
FairSpec == Spec /\ WF_vars(Next)

\* ------------------------------------- repeated invocation on one image
\* locate_boot_partition is called again on the image it has just scanned;
\* its locals (partitions, the loop position) are fresh in every call.
Reinvoke ==
    /\ pc = "harness"
    /\ lpc = "done"
    /\ runs < MaxRuns
    /\ prev' = result
    /\ runs' = runs + 1
    /\ lpc' = "read"
    /\ partitions' = <<>>
    /\ i' = 1
    /\ result' = NoResult
    /\ opened' = <<>>
    /\ examined' = <<>>
    /\ UNCHANGED <<disk, mainVars>>

InitLocate ==
    /\ pc = "harness"
    /\ hasImage = FALSE
    /\ source = NoSource
    /\ disk \in Disks
    /\ exitCode = -1
    /\ trace = <<>>
    /\ boot_partition = NoEntry
    /\ lpc = "read"
    /\ partitions = <<>>
    /\ i = 1
    /\ result = NoResult
    /\ opened = <<>>
    /\ examined = <<>>
    /\ runs = 1
    /\ prev = NoResult

NextLocate == locate_boot_partition \/ Reinvoke

SpecLocate == InitLocate /\ [][NextLocate]_vars

TypeOK ==
    /\ pc \in {"args", "write", "scan", "locating", "provision", "exit", "harness"}
    /\ lpc \in {"idle", "read", "loop", "done"}
    /\ result.kind \in {"none", "ok", "err"}
    /\ i \in 1..(Len(partitions) + 1)

\* ------------------------------------------------------------- vocabulary
\* The accepted boot-filesystem type set of the specification.
AcceptedTypes == {12}
\* The byte range an entry itself describes.
OwnWindow(p) == <<p.p_lba * 512, p.p_size * 512>>
\* The filesystem in an entry's own byte range parses and its label,
\* upper-cased, contains the marker.
OwnLabelHasMarker(d, p) ==
    LET v == d.fs[OwnWindow(p)]
    IN  v.opens /\ v.labelOk /\ contains(to_uppercase(v.label), HAIKU)
\* The filesystem in an entry's own byte range fails to parse.
OwnRegionFails(d, p) ==
    LET v == d.fs[OwnWindow(p)] IN ~v.opens \/ ~v.labelOk
AcceptedIdx(t) == {k \in 1..Len(t) : t[k].p_type \in AcceptedTypes}
\* Matching candidates: accepted type and a marker label in the own region.
MatchingIdx(d) == {k \in AcceptedIdx(d.table) : OwnLabelHasMarker(d, d.table[k])}
MinOf(S) == CHOOSE m \in S : \A n \in S : m <= n
Last(s) == s[Len(s)]
Swap(t, a, b) == [t EXCEPT ![a] = t[b], ![b] = t[a]]
NotFoundErr == Err("no Haiku boot partitions")
Returned == lpc = "done"

\* The stepwise scan and its functional rendering agree.
ScanAgrees == Returned => result = LocateFn(disk)

\* ------------------------------------------------------------------ claims

\* C1: every successful result has an accepted type code and the volume
\* label found in the returned entry's own byte range, upper-cased, contains
\* "HAIKU".
C1_BootPartitionInvariant ==
    result.kind = "ok" =>
        /\ result.entry.p_type \in AcceptedTypes
        /\ OwnLabelHasMarker(disk, result.entry)

\* C2: for a readable table (the empty one included) without any entry of
\* accepted type, locate_boot_partition returns the not-found error and no
\* volume is ever opened.
C2_NoAcceptedEntryNotFound ==
    (lpc \in {"loop", "done"} /\ disk.readable /\ AcceptedIdx(disk.table) = {}) =>
        /\ opened = <<>>
        /\ Returned => result = NotFoundErr
C2_Witness ==
    /\ Returned
    /\ disk.readable
    /\ AcceptedIdx(disk.table) = {}
    /\ Len(disk.table) >= 2
    /\ Len(examined) = Len(disk.table)
    /\ result = NotFoundErr

\* C3: a table with exactly one entry of accepted type, at any index, whose
\* own region carries a label containing the marker case-insensitively,
\* yields exactly that entry, unchanged.
C3_SingleCandidateReturned ==
    (Returned /\ disk.readable
        /\ Cardinality(AcceptedIdx(disk.table)) = 1
        /\ MatchingIdx(disk) = AcceptedIdx(disk.table)) =>
        result = Ok(disk.table[MinOf(MatchingIdx(disk))])

\* C4: with several matching candidates the first one in table order is
\* returned, and swapping two non-matching entries does not change the
\* returned entry.
C4_FirstMatchWins ==
    (Returned /\ disk.readable /\ Cardinality(MatchingIdx(disk)) >= 2) =>
        /\ result = Ok(disk.table[MinOf(MatchingIdx(disk))])
        /\ \A a, b \in (1..Len(disk.table)) \ MatchingIdx(disk) :
              LocateFn([disk EXCEPT !.table = Swap(disk.table, a, b)]) = result

\* C5: an entry of accepted type whose own region fails to parse is skipped
\* and the scan goes on: the first later matching candidate is returned.
C5_UnparsableCandidateSkipped ==
    (Returned /\ disk.readable
        /\ MatchingIdx(disk) # {}
        /\ \E k \in AcceptedIdx(disk.table) :
              k < MinOf(MatchingIdx(disk)) /\ OwnRegionFails(disk, disk.table[k])) =>
        result = Ok(disk.table[MinOf(MatchingIdx(disk))])

\* C6: an error is returned only when the table could not be read (before
\* any entry is examined) or when every entry was examined without a match.
C6_OnlyTwoErrors ==
    result.kind = "err" =>
        \/ result.err = "table" /\ examined = <<>> /\ opened = <<>>
        \/ result = NotFoundErr /\ Len(examined) = Len(partitions)

\* C7: past validation the steps are write (only with a source image),
\* locate, provision, in that order; provisioning starts only after a
\* successful locate; a failed write or locate ends the run with a non-zero
\* status and nothing after it.
C7_StepOrder ==
    /\ trace \in (IF hasImage
                  THEN {<<>>, <<"write">>, <<"write", "write_failed">>,
                        <<"write", "locate">>,
                        <<"write", "locate", "locate_failed">>,
                        <<"write", "locate", "provision">>,
                        <<"write", "locate", "provision", "provision_failed">>}
                  ELSE {<<>>, <<"locate">>, <<"locate", "locate_failed">>,
                        <<"locate", "provision">>,
                        <<"locate", "provision", "provision_failed">>})
    /\ pc = "provision" => (Returned /\ result.kind = "ok")
    /\ (\E k \in 1..Len(trace) : trace[k] = "provision") => result.kind = "ok"
    /\ (\E k \in 1..Len(trace) : trace[k] \in {"write_failed", "locate_failed"}) =>
          (pc = "exit" /\ exitCode > 0)
    /\ (lpc # "idle") => (\E k \in 1..Len(trace) : trace[k] = "locate")
C7_Witness ==
    /\ pc = "exit"
    /\ exitCode = 0
    /\ trace = <<"write", "locate", "provision">>
    /\ result.kind = "ok"

\* C8: locate_boot_partition leaves the image as it is, and a second
\* invocation on the same image returns what the first one returned.
C8_Idempotent ==
    /\ [](Returned /\ runs >= 2 => result = prev)
    /\ [][disk' = disk]_vars
C8_Witness ==
    /\ Returned
    /\ runs = 2
    /\ prev.kind = "ok"
    /\ result.kind = "ok"
    /\ Len(examined) >= 2

\* C9: every volume inspection gets the byte window of table index 0,
\* (partitions[0].start * 512, partitions[0].size * 512), one inspection per
\* accepted entry reached; the entry returned on a match is the loop's
\* current entry.
C9_WindowFromEntryZero ==
    /\ \A j \in 1..Len(opened) :
          opened[j] = <<partitions[1].p_lba * 512, partitions[1].p_size * 512>>
    /\ Len(opened) =
          Cardinality({j \in 1..Len(examined) : partitions[examined[j]].p_type = 12})
    /\ result.kind = "ok" => result.entry = partitions[Last(examined)]
C9_Witness ==
    /\ result.kind = "ok"
    /\ Last(examined) >= 2
    /\ OwnWindow(result.entry) # OwnWindow(partitions[1])
    /\ Last(opened) = OwnWindow(partitions[1])

\* C10: index 0 is read only while an existing entry is iterated; at most n
\* inspections happen; entries are examined once each in increasing index
\* order; nothing after the returned entry is examined; the scan terminates.
C10_Safety ==
    /\ opened # <<>> => Len(partitions) >= 1
    /\ Len(opened) <= Len(partitions)
    /\ \A j \in 1..Len(examined) : examined[j] = j /\ j <= Len(partitions)
    /\ result.kind = "ok" => result.entry = partitions[Len(examined)]
    /\ Returned => i <= Len(partitions) + 1
C10_BoundedScan ==
    /\ []C10_Safety
    /\ [][Returned => examined' = examined]_vars
    /\ (lpc = "read") ~> Returned
C10_Witness ==
    /\ Returned
    /\ result.kind = "ok"
    /\ opened # <<>>
    /\ Len(examined) >= 2
    /\ Len(examined) < Len(partitions)

====
